---- MODULE Spec2Model ----
(***************************************************************************)
(* A model of the exclave UnitManager (src/src/unitmanager.rs): the four   *)
(* unit registries, the two singleton slots current_jig/current_scenario,  *)
(* and the public operations load_*, select, deselect, activate,           *)
(* deactivate, unload and process_message, as driven by the harness of     *)
(* src/src/test.rs.                                                        *)
(*                                                                         *)
(* Every operation is translated as a function from a manager state `m`    *)
(* (a record of the struct's fields plus the events broadcast so far by    *)
(* the running call) to the manager state it leaves behind.  A Rust panic  *)
(* (unimplemented!(), expect(), a RefCell double borrow) is recorded in    *)
(* m.panic; it ends the call and the process with it.                      *)
(*                                                                         *)
(* Option<T> is modelled as a sequence of length at most one:              *)
(* None = << >>, Some(x) = <<x>>.                                          *)
(***************************************************************************)
EXTENDS Integers, Sequences, FiniteSets, TLC

\* Largest id of the jigs and of the scenarios of the model.
MaxId == 2

(***************************************************************************)
(* UnitName / UnitKind                                                     *)
(***************************************************************************)
UnitName(i, k) == [id |-> i, kind |-> k]

JigNames       == { UnitName(i, "jig") : i \in 1..MaxId }
ScenarioNames  == { UnitName(i, "scenario") : i \in 1..MaxId }
TestNames      == { UnitName(1, "test") }
InterfaceNames == { UnitName(1, "interface") }
InternalNames  == { UnitName(1, "internal") }
UnitNames      == JigNames \cup ScenarioNames \cup TestNames
                    \cup InterfaceNames \cup InternalNames

None    == << >>
Some(x) == <<x>>

\* The fallible methods of the unit objects (units/*.rs) called by the manager.
\* A call of the manager draws the set of those that return Err.
Hooks == { "jig.activate", "jig.deselect",
           "scenario.select", "scenario.deselect",
           "scenario.activate", "scenario.deactivate",
           "interface.activate", "interface.deactivate" }

(***************************************************************************)
(* State                                                                   *)
(***************************************************************************)
VARIABLES
    interfaces,        \* HashMap<UnitName, Interface>: a function on the loaded names
    jigs,              \* HashMap<UnitName, Jig>
    scenarios,         \* HashMap<UnitName, Scenario>
    tests,             \* HashMap<UnitName, Test>
    current_scenario,  \* Option<Scenario>
    current_jig,       \* Option<Jig>
    active,            \* the units whose object is in its Active state
    panicked,          \* "" or the message of the panic that ended the process
    emitted,           \* the UnitEvents the last call broadcast, in order
    sent,              \* the messages the last call output to interfaces, in order
    last,              \* the last call: operation, argument, result, hook outcomes
    control,           \* the mpsc channel of ManagerControlMessages (channel(), line 173)
    stream,            \* the UnitEvents a subscriber of the broadcaster has received
    run,               \* the scenario runner: what it runs and how far it is
    posted,            \* every ManagerControlMessage sent so far, in the order of the sends
    subscriptions      \* the Subscriptions of the broadcaster: where each starts, what it got

vars == << interfaces, jigs, scenarios, tests, current_scenario, current_jig,
           active, panicked, emitted, sent, last, control, stream, run, posted,
           subscriptions >>

(***************************************************************************)
(* The manager state threaded through one call                             *)
(***************************************************************************)
\* The events of UnitBroadcaster that the manager broadcasts.
StatusEvent(name, status, msg) ==
    [type |-> "Status", name |-> name, status |-> status, msg |-> msg]
LogEvent(name, level, msg) ==
    [type |-> "Log", name |-> name, status |-> level, msg |-> msg]

\* self.bc.broadcast(&event)
Broadcast(m, ev) == [m EXCEPT !.bc = Append(@, ev)]

\* return r
Ret(m, r) == [m EXCEPT !.ret = r]

\* A method of a unit object is called: it returns Err when the call drew it.
Fails(m, hook) == hook \in m.h
Failed(m, hook) == [m EXCEPT !.failed = @ \cup {hook}]

\* panic!(why): the call ends here, with the state as it is.
Panic(m, why) == [m EXCEPT !.panic = why]

\* HashMap::insert and HashMap::remove
MapInsert(map, k, v) == [x \in (DOMAIN map) \cup {k} |-> IF x = k THEN v ELSE map[x]]
MapRemove(map, k)    == [x \in (DOMAIN map) \ {k} |-> map[x]]
EmptyMap             == [x \in {} |-> x]

\* The registry that holds the units of id's kind.
Registry(m, id) ==
    CASE id.kind = "interface" -> m.interfaces
      [] id.kind = "jig"       -> m.jigs
      [] id.kind = "scenario"  -> m.scenarios
      [] id.kind = "test"      -> m.tests
      [] OTHER                 -> EmptyMap

\* A unit object enters or leaves its Active state when one of its methods
\* returns Ok: activate() enters it; deactivate(), deselect() and select()
\* leave it.
MarkActive(m, id)   == [m EXCEPT !.active = @ \cup {id}]
MarkInactive(m, id) == [m EXCEPT !.active = @ \ {id}]

(***************************************************************************)
(* deselect                                                                *)
(***************************************************************************)
\* A deselect_test that finds nothing to do for a test.
deselect_test_returns_ok(m, id) == Ret(m, "Ok")

deselect_test(m, id) == Panic(m, "not implemented: deselect_test")

deselect_interface(m, id) == Panic(m, "not implemented: deselect_interface")

\* The RefMut that activate_scenario holds on current_scenario while it calls
\* deactivate makes the borrow() of line 336 panic.
deselect_scenario(m, id) ==
    IF m.cs_mut THEN Panic(m, "already mutably borrowed: current_scenario")
    ELSE IF m.current_scenario = None THEN Ret(m, "Ok")
    ELSE IF m.current_scenario[1].id # id THEN Ret(m, "Ok")
    ELSE LET taken == [m EXCEPT !.current_scenario = None]
         IN  IF Fails(m, "scenario.deselect") THEN Ret(Failed(taken, "scenario.deselect"), "DeselectError")
             ELSE Ret(MarkInactive(taken, id), "Ok")

RECURSIVE deselect(_, _, _)

\* current_jig stays mutably borrowed (line 311) for the whole function.
\* Lines 329-331, on the manager m1 that the deselect of line 326 leaves.
deselect_jig_itself(m1, id) ==
    IF m1.panic # "" THEN m1
    ELSE IF Fails(m1, "jig.deselect") THEN Ret(Failed(m1, "jig.deselect"), "DeselectError")
    ELSE Ret(MarkInactive([m1 EXCEPT !.current_jig = None], id), "Ok")

deselect_jig(m, id) ==
    IF m.cj_mut THEN Panic(m, "already borrowed: current_jig")
    ELSE IF m.current_jig = None THEN Ret(m, "Ok")
    ELSE IF m.current_jig[1].id # id THEN Ret(m, "Ok")
    ELSE deselect_jig_itself(
             IF m.current_jig[1].default_scenario # None
             THEN [deselect([m EXCEPT !.cj_mut = TRUE],
                            m.current_jig[1].default_scenario[1], "jig is deselecting")
                     EXCEPT !.cj_mut = FALSE]
             ELSE m,
             id)

\* Lines 295-298, on the manager r that the deselect_<kind> call leaves.
deselect_result(r, id, reason) ==
    IF r.panic # "" THEN r
    ELSE IF r.ret = "Ok"
         THEN Broadcast(r, StatusEvent(id, "Deselected", reason))
         ELSE r

deselect(m, id, reason) ==
    deselect_result(
        CASE id.kind = "interface" -> deselect_interface(m, id)
          [] id.kind = "test"      -> deselect_test(m, id)
          [] id.kind = "scenario"  -> deselect_scenario(m, id)
          [] id.kind = "jig"       -> deselect_jig(m, id)
          [] OTHER                 -> Ret(m, "Ok"),
        id, reason)

(***************************************************************************)
(* deactivate                                                              *)
(***************************************************************************)
deactivate_interface(m, id) ==
    IF id \notin DOMAIN m.interfaces THEN Ret(m, "UnitNotFound")
    ELSE IF Fails(m, "interface.deactivate") THEN Ret(Failed(m, "interface.deactivate"), "DeactivateError")
    ELSE Ret(MarkInactive(m, id), "Ok")

deactivate_test(m, id) == Panic(m, "not implemented: deactivate_test")

deactivate_scenario(m, id) ==
    IF m.cs_mut THEN Panic(m, "already borrowed: current_scenario")
    ELSE IF m.current_scenario = None THEN Ret(m, "Ok")
    ELSE IF m.current_scenario[1].id # id THEN Ret(m, "Ok")
    ELSE LET taken == [m EXCEPT !.current_scenario = None]
         IN  IF Fails(m, "scenario.deactivate") THEN Ret(Failed(taken, "scenario.deactivate"), "DeactivateError")
             ELSE Ret(MarkInactive(taken, id), "Ok")

deactivate_jig(m, id) == Ret(m, "Ok")

\* Lines 444-449, on the manager r that the deactivate_<kind> call leaves.
deactivate_result(r, id, reason) ==
    IF r.panic # "" THEN r
    ELSE IF r.ret = "Ok"
         THEN Broadcast(r, StatusEvent(id, "DeactivateSuccess", reason))
         ELSE Broadcast(r, StatusEvent(id, "DeactivateFailure", r.ret))

\* Lines 437-449, on the manager m1 that the deselect of line 436 leaves.
deactivate_deselected(m1, id, reason) ==
    IF m1.panic # "" THEN m1
    ELSE deactivate_result(
             CASE id.kind = "interface" -> deactivate_interface(m1, id)
               [] id.kind = "jig"       -> deactivate_jig(m1, id)
               [] id.kind = "scenario"  -> deactivate_scenario(m1, id)
               [] id.kind = "test"      -> deactivate_test(m1, id)
               [] OTHER                 -> Ret(m1, "Ok"),
             id, reason)

deactivate(m, id, reason) ==
    deactivate_deselected(deselect(m, id, reason), id, reason)

(***************************************************************************)
(* activate                                                                *)
(***************************************************************************)
activate_interface(m, id) ==
    IF id \notin DOMAIN m.interfaces THEN Ret(m, "UnitNotFound")
    ELSE IF Fails(m, "interface.activate") THEN Ret(Failed(m, "interface.activate"), "ActivateError")
    ELSE Ret(MarkActive(m, id), "Ok")

\* The RefMut of `self.current_scenario.borrow_mut().take()` is a temporary of
\* the `if let` and lives until the end of its block, so it is alive while
\* deactivate runs.
\* Lines 423-428, on the manager m1 that the if-let of lines 419-421 leaves.
activate_scenario_itself(m1, id, new_scenario) ==
    IF m1.panic # "" THEN m1
    ELSE IF Fails(m1, "scenario.activate") THEN Ret(Failed(m1, "scenario.activate"), "ActivateError")
    ELSE Ret(Broadcast(MarkActive([m1 EXCEPT !.current_scenario = Some(new_scenario)], id),
                       StatusEvent(id, "Active", "")),
             "Ok")

activate_scenario(m, id) ==
    IF id \notin DOMAIN m.scenarios THEN Ret(m, "UnitNotFound")
    ELSE activate_scenario_itself(
             IF m.current_scenario # None
             THEN [deactivate([m EXCEPT !.current_scenario = None, !.cs_mut = TRUE],
                              m.current_scenario[1].id,
                              "switching to a new scenario")
                     EXCEPT !.cs_mut = FALSE]
             ELSE m,
             id, m.scenarios[id])

\* The same temporary RefMut, on current_jig (line 393).
\* Lines 403-408, on the manager m2 in which the new jig is current.
activate_jig_default_scenario(m2, new_jig) ==
    IF new_jig.default_scenario # None
    THEN activate_scenario(m2, new_jig.default_scenario[1])
    ELSE Ret(m2, "Ok")

\* Lines 397-408, on the manager m1 that the if-let of lines 393-395 leaves.
activate_jig_itself(m1, id, new_jig) ==
    IF m1.panic # "" THEN m1
    ELSE IF Fails(m1, "jig.activate") THEN Ret(Failed(m1, "jig.activate"), "ActivateError")
    ELSE activate_jig_default_scenario(
             Broadcast(MarkActive([m1 EXCEPT !.current_jig = Some(new_jig)], id),
                       StatusEvent(id, "Active", "")),
             new_jig)

activate_jig(m, id) ==
    IF id \notin DOMAIN m.jigs THEN Ret(m, "UnitNotFound")
    ELSE activate_jig_itself(
             IF m.current_jig # None
             THEN [deactivate([m EXCEPT !.current_jig = None, !.cj_mut = TRUE],
                              m.current_jig[1].id,
                              "switching to a different jig")
                     EXCEPT !.cj_mut = FALSE]
             ELSE m,
             id, m.jigs[id])

activate_test(m, id) == Panic(m, "not implemented: activate_test")

\* An activate that announces Active whatever the result is.
activate_result_always_active(r, id) ==
    IF r.panic # "" THEN r
    ELSE Broadcast(r, StatusEvent(id, "Active", ""))

\* Lines 360-366, on the manager r that the activate_<kind> call leaves.
activate_result(r, id) ==
    IF r.panic # "" THEN r
    ELSE IF r.ret = "Ok"
         THEN Broadcast(r, StatusEvent(id, "Active", ""))
         ELSE Broadcast(r, StatusEvent(id, "ActiveFailed", r.ret))

activate(m, id) ==
    activate_result(
        CASE id.kind = "interface" -> activate_interface(m, id)
          [] id.kind = "jig"       -> activate_jig(m, id)
          [] id.kind = "scenario"  -> activate_scenario(m, id)
          [] id.kind = "test"      -> activate_test(m, id)
          [] OTHER                 -> Ret(m, "Ok"),
        id)

(***************************************************************************)
(* select                                                                  *)
(***************************************************************************)
\* Lines 263-268, on the manager m1 that lines 259-261 leave.
select_scenario_itself(m1, id, new_scenario) ==
    IF m1.panic # "" THEN m1
    ELSE IF Fails(m1, "scenario.select") THEN Ret(Failed(m1, "scenario.select"), "SelectError")
    ELSE Ret(Broadcast(MarkInactive([m1 EXCEPT !.current_scenario = Some(new_scenario)], id),
                       StatusEvent(id, "Active", "")),
             "Ok")

\* Line 260 deselects `id`, the scenario being selected, not the old one.
select_scenario(m, id) ==
    IF id \notin DOMAIN m.scenarios THEN Ret(m, "UnitNotFound")
    ELSE IF m.current_scenario # None /\ m.current_scenario[1].id = id
         THEN Ret(m, "Ok")
    ELSE LET should_deselect == m.current_scenario # None
         IN  select_scenario_itself(
                 IF should_deselect
                 THEN deselect(m, id, "switching to a new scenario")
                 ELSE m,
                 id, m.scenarios[id])

select_jig(m, id) == Panic(m, "not implemented: select_jig")

select_test(m, id) == Panic(m, "not implemented: select_test")

select_interface(m, id) == Panic(m, "not implemented: select_interface")

\* Lines 230-236, on the manager r that the select_<kind> call leaves.
select_result(r, id) ==
    IF r.panic # "" THEN r
    ELSE IF r.ret = "Ok"
         THEN Broadcast(r, StatusEvent(id, "Active", ""))
         ELSE Broadcast(r, StatusEvent(id, "ActiveFailed", r.ret))

select(m, id) ==
    select_result(
        CASE id.kind = "interface" -> select_interface(m, id)
          [] id.kind = "jig"       -> select_jig(m, id)
          [] id.kind = "scenario"  -> select_scenario(m, id)
          [] id.kind = "test"      -> select_test(m, id)
          [] OTHER                 -> Ret(m, "Ok"),
        id)

(***************************************************************************)
(* unload                                                                  *)
(***************************************************************************)
unload_interface(m, id) == [m EXCEPT !.interfaces = MapRemove(@, id)]

unload_jig(m, id) == [m EXCEPT !.jigs = MapRemove(@, id)]

unload_test(m, id) == [m EXCEPT !.tests = MapRemove(@, id)]

unload_scenario(m, id) == [m EXCEPT !.scenarios = MapRemove(@, id)]

\* Lines 489-495, on the manager m1 that the deselect of line 488 leaves.  The
\* object a registry drops with its entry is no unit of the manager any more.
unload_deselected(m1, id) ==
    IF m1.panic # "" THEN m1
    ELSE Ret(MarkInactive(CASE id.kind = "interface" -> unload_interface(m1, id)
                            [] id.kind = "jig"       -> unload_jig(m1, id)
                            [] id.kind = "scenario"  -> unload_scenario(m1, id)
                            [] id.kind = "test"      -> unload_test(m1, id)
                            [] OTHER                 -> m1,
                          id),
             "Ok")

unload(m, id) == unload_deselected(deselect(m, id, "unloading"), id)

(***************************************************************************)
(* load_interface, load_test, load_jig, load_scenario: the load! macro     *)
(***************************************************************************)
\* <Kind>Description::select(manager, config): d.ok stands for the outcome of
\* the description's own checks; a scenario also needs every test it names.
DescriptionSelect(m, d) ==
    /\ d.ok
    /\ d.id.kind = "scenario" =>
          \A i \in 1..Len(d.tests) : d.tests[i] \in DOMAIN m.tests

\* The unit object that select returns for description d.
NewUnit(d) ==
    CASE d.id.kind = "jig"      -> [id |-> d.id, default_scenario |-> d.default_scenario]
      [] d.id.kind = "scenario" -> [id |-> d.id, tests |-> d.tests]
      [] OTHER                  -> [id |-> d.id]

\* A load_jig whose insert is lost.
RegistryInsertDropsJig(m, d) ==
    CASE d.id.kind = "interface" -> [m EXCEPT !.interfaces = MapInsert(@, d.id, NewUnit(d))]
      [] d.id.kind = "jig"       -> m
      [] d.id.kind = "scenario"  -> [m EXCEPT !.scenarios = MapInsert(@, d.id, NewUnit(d))]
      [] OTHER                   -> [m EXCEPT !.tests = MapInsert(@, d.id, NewUnit(d))]

RegistryInsert(m, d) ==
    CASE d.id.kind = "interface" -> [m EXCEPT !.interfaces = MapInsert(@, d.id, NewUnit(d))]
      [] d.id.kind = "jig"       -> [m EXCEPT !.jigs = MapInsert(@, d.id, NewUnit(d))]
      [] d.id.kind = "scenario"  -> [m EXCEPT !.scenarios = MapInsert(@, d.id, NewUnit(d))]
      [] OTHER                   -> [m EXCEPT !.tests = MapInsert(@, d.id, NewUnit(d))]

\* A load! that inserts the unit before it looks at the outcome of select.
\* Line 26, on the manager da that the deactivate of line 25 leaves.
load_deselect(da, d) ==
    IF da.panic # "" THEN da ELSE deselect(da, d.id, "reloading")

\* Lines 23-27: the unit that is replaced is deactivated and deselected.
load_replace(m, d) ==
    IF d.id \in DOMAIN Registry(m, d.id)
    THEN load_deselect(deactivate(m, d.id, "reloading"), d)
    ELSE m

\* Lines 29-48 with the insert moved in front of the match.
load_select_inserted(m1, d) ==
    IF m1.panic # "" THEN m1
    ELSE IF DescriptionSelect(m1, d)
         THEN Ret(MarkInactive(
                      Broadcast(RegistryInsert(m1, d), StatusEvent(d.id, "Loaded", "")),
                      d.id),
                  "Ok")
         ELSE Ret(Broadcast(RegistryInsert(m1, d),
                            StatusEvent(d.id, "UnitIncompatible", "select failed")),
                  "Err")

load_insert_before_select(m, d) == load_select_inserted(load_replace(m, d), d)

\* Lines 29-48, on the manager m1 that lines 23-27 leave.
load_select(m1, d) ==
    IF m1.panic # "" THEN m1
    ELSE IF DescriptionSelect(m1, d)
         THEN Ret(MarkInactive(
                      RegistryInsert(Broadcast(m1, StatusEvent(d.id, "Loaded", "")), d),
                      d.id),
                  "Ok")
         ELSE Ret(Broadcast(m1, StatusEvent(d.id, "UnitIncompatible", "select failed")),
                  "Err")

\* A load! that does not deactivate and deselect the unit it replaces.
load_without_deselect(m, d) == load_select(m, d)

load(m, d) == load_select(load_replace(m, d), d)

jig_is_loaded(m, id) == id \in DOMAIN m.jigs

get_scenario_named(m, id) == IF id \in DOMAIN m.scenarios THEN Some(m.scenarios[id]) ELSE None

get_test_named(m, id) == IF id \in DOMAIN m.tests THEN Some(m.tests[id]) ELSE None

(***************************************************************************)
(* process_message                                                         *)
(***************************************************************************)
\* ManagerStatusMessage
StatusMessage(verb, a, b) == [verb |-> verb, a |-> a, b |-> b]

\* HashMap::iter() visits the keys in an order the program does not choose;
\* the model visits them by increasing id.
RECURSIVE KeysInOrder(_)
KeysInOrder(S) ==
    IF S = {} THEN << >>
    ELSE LET x == CHOOSE x \in S : \A y \in S : x.id <= y.id
         IN  <<x>> \o KeysInOrder(S \ {x})

\* Interface::output_message fails for every message of a call that drew
\* "interface.output", and the loop of line 735 breaks at the first one.
send_messages_to(m, sender_name, messages) ==
    IF sender_name.kind # "interface" THEN m
    ELSE IF sender_name \notin DOMAIN m.interfaces
         THEN Panic(m, "Unable to find Interface in the library")
    ELSE IF Fails(m, "interface.output") /\ messages # << >>
         THEN deactivate(Failed(m, "interface.output"), sender_name, "communication error")
    ELSE [m EXCEPT !.sent = @ \o [i \in 1..Len(messages) |->
                                     [to |-> sender_name, msg |-> messages[i]]]]

send_hello_to(m, sender_name) ==
    send_messages_to(m, sender_name, << StatusMessage("Hello", "Jig/20 1.0", "") >>)

JigMessages(jig) ==
    << StatusMessage("Jig", jig.id, ""),
       StatusMessage("Describe", jig.id, "name"),
       StatusMessage("Describe", jig.id, "description") >>

send_jig_to(m, sender_name) ==
    send_messages_to(m, sender_name,
        IF m.current_jig = None
        THEN << StatusMessage("Jig", UnitName(0, "jig"), "") >>
        ELSE JigMessages(m.current_jig[1]))

RECURSIVE DescribeAll(_)
DescribeAll(ids) ==
    IF ids = << >> THEN << >>
    ELSE << StatusMessage("Describe", Head(ids), "name"),
            StatusMessage("Describe", Head(ids), "description") >>
         \o DescribeAll(Tail(ids))

send_scenarios_to(m, sender_name) ==
    send_messages_to(m, sender_name,
        << StatusMessage("Scenarios", DOMAIN m.scenarios, "") >>
        \o DescribeAll(KeysInOrder(DOMAIN m.scenarios)))

send_scenario_to(m, sender_name, scenario_name) ==
    send_messages_to(m, sender_name,
        IF scenario_name \notin DOMAIN m.scenarios
        THEN << StatusMessage("Scenario", None, "") >>
        ELSE LET scenario == m.scenarios[scenario_name]
             IN  << StatusMessage("Scenario", Some(scenario_name), "") >>
                 \o DescribeAll(scenario.tests)
                 \o << StatusMessage("Tests", scenario.id, scenario.tests) >>)

send_tests_to(m, sender_name, scenario_name_opt) ==
    IF scenario_name_opt = None /\ m.current_scenario = None
    THEN Broadcast(m, LogEvent(sender_name, "Error",
                               "unable to list tests, no scenario specified and no scenario selected"))
    ELSE LET scenario_id == IF scenario_name_opt # None THEN scenario_name_opt[1]
                            ELSE m.current_scenario[1].id
         IN  IF scenario_id \notin DOMAIN m.scenarios
             THEN Broadcast(m, LogEvent(sender_name, "Error",
                                        "unable to list tests, scenario not found"))
             ELSE send_messages_to(m, sender_name,
                      << StatusMessage("Tests", m.scenarios[scenario_id].id,
                                       m.scenarios[scenario_id].tests) >>)

\* One send_messages_to per interface, until one of them panics.
RECURSIVE SendToEach(_, _, _)
SendToEach(m, ids, messages) ==
    IF ids = << >> \/ m.panic # "" THEN m
    ELSE SendToEach(send_messages_to(m, Head(ids), messages), Tail(ids), messages)

broadcast_jig_named(m, jig_id) ==
    IF jig_id \notin DOMAIN m.jigs THEN m
    ELSE SendToEach(m, KeysInOrder(DOMAIN m.interfaces), JigMessages(m.jigs[jig_id]))

broadcast_scenario_named(m, scenario_id) ==
    IF scenario_id \notin DOMAIN m.scenarios THEN m
    ELSE SendToEach(m, KeysInOrder(DOMAIN m.interfaces),
             << StatusMessage("Scenario", Some(scenario_id), ""),
                StatusMessage("Describe", scenario_id, "name"),
                StatusMessage("Describe", scenario_id, "description") >>)

status_message(m, msg) ==
    IF msg.status # "Active" THEN m
    ELSE IF msg.name.kind = "jig" THEN broadcast_jig_named(m, msg.name)
    ELSE IF msg.name.kind = "scenario" THEN broadcast_scenario_named(m, msg.name)
    ELSE m

\* A greeting that leaves the Jig message out.
greeting_jig_left_out(m1, sender_name) == m1

\* Lines 588, 589 and 591-593 of the InitialGreeting arm, each on the manager
\* that the line before it leaves.
greeting_jig(m1, sender_name) ==
    IF m1.panic # "" THEN m1 ELSE send_jig_to(m1, sender_name)

greeting_scenarios(m2, sender_name) ==
    IF m2.panic # "" THEN m2 ELSE send_scenarios_to(m2, sender_name)

greeting_scenario(m3, sender_name) ==
    IF m3.panic # "" \/ m3.current_scenario = None THEN m3
    ELSE send_scenario_to(m3, sender_name, m3.current_scenario[1].id)

\* msg = [sender, verb, arg]: a ManagerControlMessage; arg is the Option or the
\* name the verb carries.  Start resolves the scenario and does nothing with it.
manager_request(m, msg) ==
    LET sender_name == msg.sender
        LogError(text) == Broadcast(m, LogEvent(sender_name, "Error", text))
    IN  CASE msg.verb = "Scenarios" -> send_scenarios_to(m, sender_name)
          [] msg.verb = "Tests" -> send_tests_to(m, sender_name, msg.arg)
          [] msg.verb = "Log" -> Broadcast(m, LogEvent(sender_name, "Info", "text"))
          [] msg.verb = "LogError" -> LogError("text")
          [] msg.verb = "Scenario" ->
                IF get_scenario_named(m, msg.arg[1]) # None
                THEN activate(m, msg.arg[1])
                ELSE LogError("unable to find scenario")
          [] msg.verb = "Error" -> LogError("text")
          [] msg.verb = "Jig" -> send_jig_to(m, sender_name)
          [] msg.verb = "InitialGreeting" ->
                greeting_scenario(
                    greeting_scenarios(
                        greeting_jig(send_hello_to(m, sender_name), sender_name),
                        sender_name),
                    sender_name)
          [] msg.verb = "ChildExited" ->
                Broadcast(m, StatusEvent(sender_name, "ActiveFailed",
                                         "Unit unexpectedly exited"))
          [] msg.verb = "Unimplemented" -> LogError("unimplemented verb")
          [] msg.verb = "Start" ->
                IF msg.arg # None
                THEN IF msg.arg[1] \notin DOMAIN m.scenarios
                     THEN LogError("unable to find scenario to start it")
                     ELSE m
                ELSE IF m.current_scenario = None
                     THEN LogError("no scenario selected to start")
                     ELSE m
          [] OTHER -> m

\* The Log arm: output_message(..).expect(..) at each interface.
RECURSIVE LogToEach(_, _, _)
LogToEach(m, ids, log) ==
    IF ids = << >> THEN m
    ELSE IF Fails(m, "interface.output")
         THEN Panic(Failed(m, "interface.output"), "Unable to pass message to client")
    ELSE LogToEach([m EXCEPT !.sent = Append(@, [to |-> Head(ids),
                                                  msg |-> StatusMessage("Log", log, "")])],
                   Tail(ids), log)

\* msg.type is the UnitEvent variant: ManagerRequest, Status, Log, or one of
\* those the manager ignores (RescanRequest, Shutdown, Category).
process_message(m, msg) ==
    Ret(CASE msg.type = "ManagerRequest" -> manager_request(m, msg)
          [] msg.type = "Status" -> status_message(m, msg)
          [] msg.type = "Log" -> LogToEach(m, KeysInOrder(DOMAIN m.interfaces), msg)
          [] OTHER -> m,
        "Ok")

(***************************************************************************)
(* The inputs of the calls                                                 *)
(***************************************************************************)
\* The unit files of the model, one per name: jig 1 names scenario 1 as its
\* DefaultScenario and the other jigs name none; scenario 1 runs test 1 and
\* the other scenarios run no test.  `ok` is the outcome of the description's
\* own checks in select.
DefaultScenarioOf(id) == IF id.id = 1 THEN Some(UnitName(1, "scenario")) ELSE None

TestsOf(id) == IF id.id = 1 THEN << UnitName(1, "test") >> ELSE << >>

Description(id, ok) ==
    [ id |-> id,
      default_scenario |-> IF id.kind = "jig" THEN DefaultScenarioOf(id) ELSE None,
      tests |-> IF id.kind = "scenario" THEN TestsOf(id) ELSE << >>,
      ok |-> ok ]

JigDescriptions == { Description(id, ok) : id \in JigNames, ok \in BOOLEAN }

ScenarioDescriptions == { Description(id, ok) : id \in ScenarioNames, ok \in BOOLEAN }

TestDescriptions == { Description(id, ok) : id \in TestNames, ok \in BOOLEAN }

InterfaceDescriptions == { Description(id, ok) : id \in InterfaceNames, ok \in BOOLEAN }

\* The unit methods a call on a unit of this kind can reach.
HooksOf(op, kind) ==
    CASE op \in {"load", "deselect", "unload"} /\ kind = "jig" ->
            {"jig.deselect", "scenario.deselect"}
      [] op \in {"load", "deselect", "unload"} /\ kind = "scenario" ->
            {"scenario.deselect"}
      [] op = "deactivate" /\ kind = "jig" -> {"jig.deselect", "scenario.deselect"}
      [] op = "deactivate" /\ kind = "scenario" ->
            {"scenario.deselect", "scenario.deactivate"}
      [] op = "select" /\ kind = "scenario" -> {"scenario.select"}
      [] op = "activate" /\ kind = "jig" -> {"jig.activate", "scenario.activate"}
      [] op = "activate" /\ kind = "scenario" -> {"scenario.activate"}
      [] op = "activate" /\ kind = "interface" -> {"interface.activate"}
      [] OTHER -> {}

NoUnit  == UnitName(0, "internal")
NoEvent == [type |-> "None"]

\* The control messages: every verb from an interface, and the two that a
\* running test posts.
ManagerRequests ==
    { [type |-> "ManagerRequest", sender |-> s, verb |-> v, arg |-> None] :
         s \in InterfaceNames,
         v \in {"Jig", "Scenarios", "InitialGreeting", "ChildExited", "Log",
                "LogError", "Error", "Unimplemented", "Tests", "Start"} }
    \cup
    { [type |-> "ManagerRequest", sender |-> s, verb |-> v, arg |-> Some(n)] :
         s \in InterfaceNames, v \in {"Scenario", "Tests", "Start"}, n \in ScenarioNames }
    \cup
    { [type |-> "ManagerRequest", sender |-> s, verb |-> v, arg |-> None] :
         s \in TestNames, v \in {"Log", "ChildExited"} }

UnitEvents ==
    { [type |-> "RescanRequest"], [type |-> "Shutdown"] }
    \cup { StatusEvent(u, "Active", "") : u \in JigNames \cup ScenarioNames }
    \cup { StatusEvent(u, "Loaded", "") : u \in TestNames }
    \cup { LogEvent(u, "Info", "text") : u \in TestNames }
    \cup ManagerRequests

(***************************************************************************)
(* The calls as steps of the manager's thread                              *)
(***************************************************************************)
\* The manager at the start of a call that draws h as the failing methods.
Self(h) ==
    [ interfaces |-> interfaces, jigs |-> jigs, scenarios |-> scenarios,
      tests |-> tests, current_scenario |-> current_scenario,
      current_jig |-> current_jig, active |-> active,
      panic |-> "", bc |-> << >>, sent |-> << >>, ret |-> "", h |-> h, failed |-> {},
      cj_mut |-> FALSE, cs_mut |-> FALSE ]

\* What the call leaves behind, and the record of the call.
Commit(m, op, id, ok, ev) ==
    /\ interfaces' = m.interfaces
    /\ jigs' = m.jigs
    /\ scenarios' = m.scenarios
    /\ tests' = m.tests
    /\ current_scenario' = m.current_scenario
    /\ current_jig' = m.current_jig
    /\ active' = m.active
    /\ panicked' = m.panic
    /\ emitted' = m.bc
    /\ sent' = m.sent
    /\ last' = [ op |-> op, id |-> id, ret |-> m.ret, failed |-> m.failed, ok |-> ok,
                 ev |-> ev,
                 reload |-> op = "load" /\ id \in DOMAIN Registry(Self({}), id) ]
    /\ UNCHANGED << control, stream, run, posted, subscriptions >>

\* The runner before a scenario is handed to it.
RunnerIdle ==
    [ pc |-> "idle", id |-> NoUnit, tests |-> << >>, exec_stop |-> FALSE,
      idx |-> 0, lines |-> 0, failed |-> None, steps |-> << >> ]

Init ==
    /\ interfaces = EmptyMap
    /\ jigs = EmptyMap
    /\ scenarios = EmptyMap
    /\ tests = EmptyMap
    /\ current_scenario = None
    /\ current_jig = None
    /\ active = {}
    /\ panicked = ""
    /\ emitted = << >>
    /\ sent = << >>
    /\ last = [ op |-> "new", id |-> NoUnit, ret |-> "", failed |-> {}, ok |-> TRUE,
                ev |-> NoEvent, reload |-> FALSE ]
    /\ control = << >>
    /\ stream = << >>
    /\ run = RunnerIdle
    /\ posted = << >>
    /\ subscriptions = << >>

LoadInterface ==
    /\ panicked = ""
    /\ \E d \in InterfaceDescriptions : \E h \in SUBSET HooksOf("load", "interface") :
          Commit(load(Self(h), d), "load", d.id, d.ok, NoEvent)

LoadTest ==
    /\ panicked = ""
    /\ \E d \in TestDescriptions : \E h \in SUBSET HooksOf("load", "test") :
          Commit(load(Self(h), d), "load", d.id, d.ok, NoEvent)

LoadJig ==
    /\ panicked = ""
    /\ \E d \in JigDescriptions : \E h \in SUBSET HooksOf("load", "jig") :
          Commit(load(Self(h), d), "load", d.id, d.ok, NoEvent)

LoadScenario ==
    /\ panicked = ""
    /\ \E d \in ScenarioDescriptions : \E h \in SUBSET HooksOf("load", "scenario") :
          Commit(load(Self(h), d), "load", d.id, d.ok, NoEvent)

Select ==
    /\ panicked = ""
    /\ \E id \in UnitNames : \E h \in SUBSET HooksOf("select", id.kind) :
          Commit(select(Self(h), id), "select", id, TRUE, NoEvent)

Deselect ==
    /\ panicked = ""
    /\ \E id \in UnitNames : \E h \in SUBSET HooksOf("deselect", id.kind) :
          Commit(Ret(deselect(Self(h), id, "requested"), "Ok"), "deselect", id, TRUE, NoEvent)

Activate ==
    /\ panicked = ""
    /\ \E id \in UnitNames : \E h \in SUBSET HooksOf("activate", id.kind) :
          Commit(activate(Self(h), id), "activate", id, TRUE, NoEvent)

Deactivate ==
    /\ panicked = ""
    /\ \E id \in UnitNames : \E h \in SUBSET HooksOf("deactivate", id.kind) :
          Commit(deactivate(Self(h), id, "requested"), "deactivate", id, TRUE, NoEvent)

Unload ==
    /\ panicked = ""
    /\ \E id \in UnitNames : \E h \in SUBSET HooksOf("unload", id.kind) :
          Commit(unload(Self(h), id), "unload", id, TRUE, NoEvent)

\* The unit methods that handling event ev can reach: output_message of the
\* loaded interfaces, and activate of the scenario a Scenario request names.
HooksOfEvent(ev) ==
    (IF interfaces = EmptyMap THEN {} ELSE {"interface.output"})
    \cup (IF ev.type = "ManagerRequest" /\ ev.verb = "Scenario"
          THEN {"scenario.activate"} ELSE {})

\* Exclave::run_once hands the manager one event of the broadcaster.
ProcessMessage ==
    /\ panicked = ""
    /\ \E ev \in UnitEvents : \E h \in SUBSET HooksOfEvent(ev) :
          Commit(process_message(Self(h), ev), "process_message", NoUnit, TRUE, ev)

Next ==
    \/ LoadInterface
    \/ LoadTest
    \/ LoadJig
    \/ LoadScenario
    \/ Select
    \/ Deselect
    \/ Activate
    \/ Deactivate
    \/ Unload
    \/ ProcessMessage

Spec == Init /\ [][Next]_vars

(***************************************************************************)
(* The control channel, its monitor thread and the scenario runner         *)
(***************************************************************************)
MaxPosts     == 1   \* control messages that an interface posts
MaxRescans   == 1   \* RescanRequests that the harness broadcasts
RunTestCount == 3   \* the tests of basic_scenario
EchoCount    == 2   \* the lines that a command of the tests writes

RunTestNames == { UnitName(i, "test") : i \in 1..RunTestCount }

\* ManagerControlMessage::new(sender, contents); n counts the messages of the
\* sender, to tell them apart.
ControlMessage(sender, verb, arg, n) ==
    [sender |-> sender, verb |-> verb, arg |-> arg, n |-> n]

\* UnitEvent::ManagerRequest(msg)
ManagerRequest(msg) ==
    [type |-> "ManagerRequest", sender |-> msg.sender, verb |-> msg.verb,
     arg |-> msg.arg, n |-> msg.n]

\* The control messages of a sender among events or messages, in their order.
RECURSIVE From(_, _)
From(sender, msgs) ==
    IF msgs = << >> THEN << >>
    ELSE IF "sender" \in DOMAIN Head(msgs) /\ Head(msgs).sender = sender
         THEN << ControlMessage(sender, Head(msgs).verb, Head(msgs).arg, Head(msgs).n) >>
              \o From(sender, Tail(msgs))
         ELSE From(sender, Tail(msgs))

\* Sender::send on a clone of control_sender: the channel is a FIFO queue.
send(q, msg) == Append(q, msg)

\* A unit sends ManagerControlMessage::new(sender, contents) on its clone.
Post(sender, verb, arg) ==
    /\ control' = send(control, ControlMessage(sender, verb, arg,
                                               Len(From(sender, posted)) + 1))
    /\ posted' = Append(posted, ControlMessage(sender, verb, arg,
                                               Len(From(sender, posted)) + 1))

\* A monitor that takes the newest message of the channel first.
control_message_monitor_newest_first(q, bc) ==
    [ control |-> SubSeq(q, 1, Len(q) - 1),
      stream  |-> Append(bc, ManagerRequest(q[Len(q)])) ]

\* A monitor that loses every second message of a sender.
control_message_monitor_lossy(q, bc) ==
    [ control |-> Tail(q),
      stream  |-> IF Head(q).n % 2 = 0 THEN bc
                  ELSE Append(bc, ManagerRequest(Head(q))) ]

\* One turn of the loop of control_message_monitor: recv(), then broadcast.
control_message_monitor(q, bc) ==
    [ control |-> Tail(q),
      stream  |-> Append(bc, ManagerRequest(Head(q))) ]

\* The scenarios that are handed to the runner: the first k tests in their
\* order, with or without an ExecStop command.
RunScenarios ==
    { [ id |-> UnitName(1, "scenario"),
        tests |-> [i \in 1..k |-> UnitName(i, "test")],
        exec_stop |-> b ] : k \in 0..RunTestCount, b \in BOOLEAN }

\* The outcomes of a test: it exits with a code in time, or it does not.
Outcomes == {"exit 0", "exit 7", "timeout"}

\* A runner that leaves ExecStop out after a failed test.
runner_advance_skips_stop_on_failure(r) ==
    IF r.failed = None /\ r.idx < Len(r.tests)
    THEN [r EXCEPT !.pc = "test", !.idx = @ + 1, !.lines = 0,
                   !.steps = Append(@, [do |-> "start", unit |-> r.tests[r.idx + 1]])]
    ELSE IF r.exec_stop /\ r.failed = None
         THEN [r EXCEPT !.pc = "stop", !.lines = 0,
                        !.steps = Append(@, [do |-> "stop", unit |-> r.id])]
         ELSE [r EXCEPT !.pc = "finish"]

\* Steps 3, 5 and 6: the next test in the declared order; after the last test
\* or a failed one, ExecStop if the scenario has one.
runner_advance(r) ==
    IF r.failed = None /\ r.idx < Len(r.tests)
    THEN [r EXCEPT !.pc = "test", !.idx = @ + 1, !.lines = 0,
                   !.steps = Append(@, [do |-> "start", unit |-> r.tests[r.idx + 1]])]
    ELSE IF r.exec_stop
         THEN [r EXCEPT !.pc = "stop", !.lines = 0,
                        !.steps = Append(@, [do |-> "stop", unit |-> r.id])]
         ELSE [r EXCEPT !.pc = "finish"]

\* Step 1: the snapshot of the scenario's test sequence and ExecStop command.
runner_snapshot(sc) ==
    [ RunnerIdle EXCEPT !.id = sc.id, !.tests = sc.tests, !.exec_stop = sc.exec_stop ]

\* A runner that goes on with the next test after a failed one.
runner_test_exited_ignores_failure(r, outcome) ==
    [r EXCEPT !.steps = Append(@, [do |-> "exit", unit |-> r.tests[r.idx],
                                   outcome |-> outcome])]

\* Step 4: the test succeeds if it exits 0 in time, and fails otherwise.
runner_test_exited(r, outcome) ==
    [r EXCEPT !.failed = IF outcome = "exit 0" THEN None ELSE Some(r.tests[r.idx]),
              !.steps = Append(@, [do |-> "exit", unit |-> r.tests[r.idx],
                                   outcome |-> outcome])]

\* Step 7: code is 0 on success and nonzero on failure.
runner_code(r) == IF r.failed = None THEN 0 ELSE 1

\* On Start(scenario): steps 1 and 2, then the first thing to run.
RunnerStart ==
    /\ run.pc = "idle"
    /\ \E sc \in RunScenarios :
          /\ run' = runner_advance(runner_snapshot(sc))
          /\ stream' = Append(stream, StatusEvent(sc.id, "Active", ""))
    /\ UNCHANGED << interfaces, jigs, scenarios, tests, current_scenario, current_jig,
                    active, panicked, emitted, sent, last, control, posted,
                    subscriptions >>

\* A line of the running test's output becomes a Log control message tagged
\* with the test's name.
TestOutput ==
    /\ run.pc = "test"
    /\ run.lines < EchoCount
    /\ Post(run.tests[run.idx], "Log", run.lines + 1)
    /\ run' = [run EXCEPT !.lines = @ + 1]
    /\ UNCHANGED << interfaces, jigs, scenarios, tests, current_scenario, current_jig,
                    active, panicked, emitted, sent, last, stream,
                    subscriptions >>

\* The command of a test writes its lines and then exits; the timeout can end
\* it at any point.
TestExit ==
    /\ run.pc = "test"
    /\ \E outcome \in Outcomes :
          /\ outcome = "timeout" \/ run.lines = EchoCount
          /\ run' = runner_advance(runner_test_exited(run, outcome))
    /\ UNCHANGED << interfaces, jigs, scenarios, tests, current_scenario, current_jig,
                    active, panicked, emitted, sent, last, control, stream, posted,
                    subscriptions >>

\* A line of ExecStop's output becomes a Log control message tagged with the
\* scenario's name.
ExecStopOutput ==
    /\ run.pc = "stop"
    /\ run.lines < EchoCount
    /\ Post(run.id, "Log", run.lines + 1)
    /\ run' = [run EXCEPT !.lines = @ + 1]
    /\ UNCHANGED << interfaces, jigs, scenarios, tests, current_scenario, current_jig,
                    active, panicked, emitted, sent, last, stream,
                    subscriptions >>

ExecStopExit ==
    /\ run.pc = "stop"
    /\ run' = [run EXCEPT !.pc = "finish"]
    /\ UNCHANGED << interfaces, jigs, scenarios, tests, current_scenario, current_jig,
                    active, panicked, emitted, sent, last, control, stream, posted,
                    subscriptions >>

\* Step 7: the runner posts ScenarioFinished(code, summary).
RunnerFinish ==
    /\ run.pc = "finish"
    /\ Post(run.id, "ScenarioFinished", runner_code(run))
    /\ run' = [run EXCEPT !.pc = "finished"]
    /\ UNCHANGED << interfaces, jigs, scenarios, tests, current_scenario, current_jig,
                    active, panicked, emitted, sent, last, stream,
                    subscriptions >>

\* An interface posts a request on its clone of the control channel.
InterfacePost ==
    /\ \E i \in InterfaceNames :
          /\ Len(From(i, posted)) < MaxPosts
          /\ Post(i, "Jig", None)
    /\ UNCHANGED << interfaces, jigs, scenarios, tests, current_scenario, current_jig,
                    active, panicked, emitted, sent, last, stream, run,
                    subscriptions >>

\* Exclave::rescan broadcasts on the broadcaster itself, not through the channel.
Rescan ==
    /\ Cardinality({ k \in 1..Len(stream) : stream[k].type = "RescanRequest" }) < MaxRescans
    /\ stream' = Append(stream, [type |-> "RescanRequest"])
    /\ UNCHANGED << interfaces, jigs, scenarios, tests, current_scenario, current_jig,
                    active, panicked, emitted, sent, last, control, run, posted,
                    subscriptions >>

\* The monitor thread re-broadcasts the message it receives.
ControlMessageMonitor ==
    /\ control # << >>
    /\ control' = control_message_monitor(control, stream).control
    /\ stream' = control_message_monitor(control, stream).stream
    /\ UNCHANGED << interfaces, jigs, scenarios, tests, current_scenario, current_jig,
                    active, panicked, emitted, sent, last, run, posted,
                    subscriptions >>

RunNext ==
    \/ RunnerStart
    \/ TestOutput
    \/ TestExit
    \/ ExecStopOutput
    \/ ExecStopExit
    \/ RunnerFinish
    \/ InterfacePost
    \/ Rescan
    \/ ControlMessageMonitor

RunSpec == Init /\ [][RunNext]_vars

(***************************************************************************)
(* The fan-out of the broadcaster to its subscriptions                     *)
(***************************************************************************)
MaxSubscriptions == 2   \* subscriptions that are taken on the broadcaster

\* subscribe(): the new subscription gets the events broadcast from now on.
subscribe(subs, bc) == Append(subs, [from |-> Len(bc), got |-> << >>])

\* The events that are broadcast for a subscription that it has not got yet.
Undelivered(sub, bc) == Len(bc) - sub.from - Len(sub.got)

\* A fan-out that hands a subscription its newest event first.
deliver_newest_first(sub, bc) ==
    [sub EXCEPT !.got = Append(@, bc[Len(bc) - Len(sub.got)])]

\* The fan-out hands a subscription the events in the order of the broadcasts.
deliver(sub, bc) ==
    [sub EXCEPT !.got = Append(@, bc[sub.from + Len(sub.got) + 1])]

\* A consumer subscribes while the threads broadcast.
Subscribe ==
    /\ Len(subscriptions) < MaxSubscriptions
    /\ subscriptions' = subscribe(subscriptions, stream)
    /\ UNCHANGED << interfaces, jigs, scenarios, tests, current_scenario, current_jig,
                    active, panicked, emitted, sent, last, control, stream, run, posted >>

\* The fan-out delivers one event to one subscription.
Deliver ==
    /\ \E i \in 1..Len(subscriptions) :
          /\ Undelivered(subscriptions[i], stream) > 0
          /\ subscriptions' = [subscriptions EXCEPT ![i] = deliver(@, stream)]
    /\ UNCHANGED << interfaces, jigs, scenarios, tests, current_scenario, current_jig,
                    active, panicked, emitted, sent, last, control, stream, run, posted >>

\* The manager's thread broadcasts the Loaded status of a jig it loads.
ManagerBroadcast ==
    /\ \E u \in JigNames :
          /\ \A p \in 1..Len(stream) : stream[p] # StatusEvent(u, "Loaded", "")
          /\ stream' = Append(stream, StatusEvent(u, "Loaded", ""))
    /\ UNCHANGED << interfaces, jigs, scenarios, tests, current_scenario, current_jig,
                    active, panicked, emitted, sent, last, control, run, posted,
                    subscriptions >>

FanOutNext ==
    \/ InterfacePost
    \/ ControlMessageMonitor
    \/ ManagerBroadcast
    \/ Subscribe
    \/ Deliver

FanOutSpec == Init /\ [][FanOutNext]_vars

(***************************************************************************)
(* Properties                                                              *)
(***************************************************************************)
\* The number of events of a sequence that are Status(name, status).
CountStatus(events, name, status) ==
    Cardinality({ i \in 1..Len(events) :
                     /\ events[i].type = "Status"
                     /\ events[i].name = name
                     /\ events[i].status = status })

\* The unit a slot holds is the unit `id`.
Holds(slot, id) == slot # None /\ slot[1].id = id

\* The registries of the manager before a step, after it, and in a record m.
RegistriesNow  == << interfaces, jigs, scenarios, tests >>
RegistriesNext == << interfaces', jigs', scenarios', tests' >>
RegistriesOf(m) == << m.interfaces, m.jigs, m.scenarios, m.tests >>

\* C1: in every reachable state at most one jig is Active, and at most one
\* scenario is Active or current.
C1_ThereCanOnlyBeOne ==
    /\ Cardinality({ j \in JigNames : j \in active }) <= 1
    /\ Cardinality({ s \in ScenarioNames :
                        s \in active \/ Holds(current_scenario, s) }) <= 1

\* C2: in every reachable state the unit in current_jig is in the jigs
\* registry and the unit in current_scenario is in the scenarios registry.
C2_CurrentIsLoaded ==
    /\ current_jig # None => current_jig[1].id \in DOMAIN jigs
    /\ current_scenario # None => current_scenario[1].id \in DOMAIN scenarios

\* C3: activate(B) of a loaded jig B while another jig A is current completes,
\* broadcasts DeactivateSuccess(A, "switching to a different jig") before
\* Active(B), and leaves B in current_jig.
C3_ActivateReplacesJig ==
    [][ ( /\ last'.op = "activate"
          /\ last'.id \in DOMAIN jigs
          /\ current_jig # None
          /\ current_jig[1].id # last'.id
          /\ "jig.activate" \notin last'.failed )
        => ( /\ panicked' = ""
             /\ Holds(current_jig', last'.id)
             /\ \E i, j \in 1..Len(emitted') :
                   /\ i < j
                   /\ emitted'[i] = StatusEvent(current_jig[1].id, "DeactivateSuccess",
                                                "switching to a different jig")
                   /\ emitted'[j] = StatusEvent(last'.id, "Active", "") ) ]_vars

\* C4: activate(J) of a loaded jig J whose default scenario is not loaded, or
\* fails to activate, broadcasts ActiveFailed(J) and leaves J in current_jig.
C4_DefaultScenarioFailureKeepsJig ==
    [][ ( /\ last'.op = "activate"
          /\ last'.id \in DOMAIN jigs
          /\ jigs[last'.id].default_scenario # None
          /\ "jig.activate" \notin last'.failed
          /\ \/ jigs[last'.id].default_scenario[1] \notin DOMAIN scenarios
             \/ "scenario.activate" \in last'.failed )
        => ( /\ panicked' = ""
             /\ CountStatus(emitted', last'.id, "ActiveFailed") >= 1
             /\ Holds(current_jig', last'.id) ) ]_vars

\* C5: a select(u) right after a successful select(u) of a scenario u
\* broadcasts nothing and leaves current_scenario as it is.
C5_SelectTwiceIsSilent ==
    [][ ( /\ last.op = "select"
          /\ last.id.kind = "scenario"
          /\ last.ret = "Ok"
          /\ last'.op = "select"
          /\ last'.id = last.id )
        => ( /\ emitted' = << >>
             /\ current_scenario' = current_scenario ) ]_vars

\* C6: deactivate(u, r) right after a successful activate(u) of a jig or
\* scenario u broadcasts exactly one DeactivateSuccess(u) and no
\* DeactivateFailure(u), and leaves u in its registry, not Active and not current.
C6_ActivateThenDeactivate ==
    [][ ( /\ last.op = "activate"
          /\ last.id.kind \in {"jig", "scenario"}
          /\ last.ret = "Ok"
          /\ last'.op = "deactivate"
          /\ last'.id = last.id )
        => ( /\ panicked' = ""
             /\ CountStatus(emitted', last.id, "DeactivateSuccess") = 1
             /\ CountStatus(emitted', last.id, "DeactivateFailure") = 0
             /\ last.id \in DOMAIN jigs' \cup DOMAIN scenarios'
             /\ last.id \notin active'
             /\ ~Holds(current_jig', last.id)
             /\ ~Holds(current_scenario', last.id) ) ]_vars

\* The manager that unload(id) followed by load(d) leaves, from the state before
\* a step that loaded d, with the same outcomes of the units' methods.
UnloadThenLoad ==
    load(unload(Self(last'.failed), last'.id), Description(last'.id, last'.ok))

C8_LoadJigThenRescan ==
    [][ /\ ( /\ last'.op = "load"
             /\ last'.id.kind = "jig"
             /\ ~last'.reload
             /\ last'.ret = "Ok" )
           => ( /\ jig_is_loaded([jigs |-> jigs'], last'.id)
                /\ CountStatus(emitted', last'.id, "Loaded") = 1 )
        /\ ( last'.op = "process_message" /\ last'.ev.type = "RescanRequest" )
           => ( /\ RegistriesNext = RegistriesNow
                /\ emitted' = << >> ) ]_vars

\* A RescanRequest has been processed while a jig is loaded.
C8_Witness ==
    /\ last.op = "process_message"
    /\ last.ev.type = "RescanRequest"
    /\ jig_is_loaded([jigs |-> jigs], UnitName(1, "jig"))
    /\ panicked = ""

\* C9: a load(d) whose select returns an error returns Err, broadcasts exactly
\* one UnitIncompatible(d.id) and no Loaded(d.id), and inserts nothing: every
\* registry is as it was before the call.
C9_FailedLoadInsertsNothing ==
    [][ ( /\ last'.op = "load"
          /\ panicked' = ""
          /\ ~DescriptionSelect(Self({}), Description(last'.id, last'.ok)) )
        => ( /\ last'.ret = "Err"
             /\ CountStatus(emitted', last'.id, "UnitIncompatible") = 1
             /\ CountStatus(emitted', last'.id, "Loaded") = 0
             /\ RegistriesNext = RegistriesNow ) ]_vars

\* A reload has failed in select: the unit loaded before is still there.
C9_Witness ==
    /\ last.op = "load"
    /\ last.reload
    /\ last.ret = "Err"
    /\ panicked = ""
    /\ last.id \in DOMAIN jigs \cup DOMAIN scenarios

\* C10: unload(u) of a test or scenario u completes, and get_test_named(u) or
\* get_scenario_named(u) is absent after it.
C10_UnloadedIsAbsent ==
    ( last.op = "unload" /\ last.id.kind \in {"test", "scenario"} )
    => ( /\ panicked = ""
         /\ get_test_named([tests |-> tests], last.id) = None
         /\ get_scenario_named([scenarios |-> scenarios], last.id) = None )

\* Status::Active(u) is among the events.
Announced(events, u) ==
    \E i \in 1..Len(events) : events[i] = StatusEvent(u, "Active", "")

\* u is in the registry of its kind, before a step and after it.
IsLoaded(u) == u \in DOMAIN Registry(Self({}), u)
IsLoadedNext(u) ==
    u \in DOMAIN Registry([interfaces |-> interfaces', jigs |-> jigs',
                           scenarios |-> scenarios', tests |-> tests'], u)

\* C11 as stated: a unit u of any kind whose Status::Active(u) a call has
\* broadcast is in the registry of its kind when the call returns, and still is
\* after the call that follows, which is the earliest that the event is handled.
C11_ActiveUnitIsLoaded ==
    [][ \A u \in UnitNames :
           (Announced(emitted', u) \/ Announced(emitted, u)) => IsLoadedNext(u) ]_vars

\* C11 as amended: a unit u of kind Interface, Jig, Scenario or Test whose
\* Status::Active(u) a call has broadcast is in the registry of its kind when
\* the call returns.
C11_ActiveUnitIsLoadedAtBroadcast ==
    \A u \in UnitNames :
       (Announced(emitted, u) /\ u.kind # "internal") => IsLoaded(u)

\* An activate has broadcast Active for a jig and for its default scenario.
C11_Witness ==
    /\ last.op = "activate"
    /\ last.id.kind = "jig"
    /\ Announced(emitted, last.id)
    /\ Announced(emitted, UnitName(1, "scenario"))

C13_OutputFailureDeactivatesInterface ==
    [][ ( /\ last'.op = "process_message"
          /\ "interface.output" \in last'.failed )
        => ( /\ panicked' = ""
             /\ Cardinality({ i \in InterfaceNames :
                                 CountStatus(emitted', i, "DeactivateSuccess") = 1 }) = 1
             /\ RegistriesNext = RegistriesNow
             /\ current_scenario' = current_scenario
             /\ current_jig' = current_jig ) ]_vars

\* C14: no call of the manager ends in a panic.
C14_NoCallAborts == panicked = ""

\* C15: when the manager has processed a Shutdown event, current_scenario and
\* current_jig are empty and no jig, scenario or interface is Active.
C15_ShutdownDeactivatesAll ==
    ( last.op = "process_message" /\ last.ev.type = "Shutdown" )
    => ( /\ current_scenario = None
         /\ current_jig = None
         /\ active = {} )

\* The scenario that the Start request of the last call resolves to: the named
\* one if it is loaded, the current one for Start(None).
StartResolves ==
    /\ last.op = "process_message"
    /\ last.ev.type = "ManagerRequest"
    /\ last.ev.verb = "Start"
    /\ panicked = ""
    /\ IF last.ev.arg # None THEN last.ev.arg[1] \in DOMAIN scenarios
                             ELSE current_scenario # None

StartedScenario ==
    IF last.ev.arg # None THEN last.ev.arg[1] ELSE current_scenario[1].id

\* C16: when the manager has handled a Start request that names a loaded
\* scenario, or Start(None) while a scenario is current, that scenario has been
\* handed to the runner, which then runs it to its ScenarioFinished message.
C16_StartHandsOffToRunner ==
    StartResolves => (run.pc # "idle" /\ run.id = StartedScenario)

IsLogOf(e, kind) ==
    e.type = "ManagerRequest" /\ e.verb = "Log" /\ e.sender.kind = kind

IsScenarioFinished(e) ==
    e.type = "ManagerRequest" /\ e.verb = "ScenarioFinished"

\* The place of a test in the sequence that the runner executes.
Position(u) == CHOOSE i \in 1..Len(run.tests) : run.tests[i] = u

\* The Log messages of tests among events, as << test, line >>, in their order.
RECURSIVE TestLogs(_)
TestLogs(events) ==
    IF events = << >> THEN << >>
    ELSE IF IsLogOf(Head(events), "test")
         THEN << << Head(events).sender, Head(events).arg >> >> \o TestLogs(Tail(events))
         ELSE TestLogs(Tail(events))

\* Every line of every test of the sequence, test by test.
AllTestLogs ==
    [ k \in 1..(EchoCount * Len(run.tests)) |->
        << run.tests[((k - 1) \div EchoCount) + 1], ((k - 1) % EchoCount) + 1 >> ]

Succeeded(i) ==
    \E k \in 1..Len(run.steps) :
       /\ run.steps[k].do = "exit"
       /\ run.steps[k].unit = run.tests[i]
       /\ run.steps[k].outcome = "exit 0"

\* A test has failed: a non-zero exit or the timeout.
SomeTestFailed ==
    \E k \in 1..Len(run.steps) :
       run.steps[k].do = "exit" /\ run.steps[k].outcome # "exit 0"

\* The ScenarioFinished messages that the runner has posted.
FinishedPosted ==
    { k \in 1..Len(posted) : posted[k].verb = "ScenarioFinished" }

StopSteps == { k \in 1..Len(run.steps) : run.steps[k].do = "stop" }

Senders == { posted[k].sender : k \in 1..Len(posted) }

\* The ManagerRequest events of the stream.
Rebroadcast == { p \in 1..Len(stream) : stream[p].type = "ManagerRequest" }

\* C20: every control message sent on a clone of the control sender is either
\* still in the channel or in the broadcast stream exactly once as a
\* ManagerRequest, none is made up, and the messages of one sender are in the
\* stream, and behind it in the channel, in the order they were sent, whatever
\* other senders and direct broadcasts come in between.
C20_ControlMessagesRebroadcastOnceInOrder ==
    /\ \A s \in Senders : From(s, stream) \o From(s, control) = From(s, posted)
    /\ Cardinality(Rebroadcast) + Len(control) = Len(posted)
    /\ \A p \in Rebroadcast : stream[p].sender \in Senders
    /\ \A k \in 1..Len(control) : control[k].sender \in Senders

\* Two messages of one test are in the stream in the order sent, with a message
\* of an interface and a direct broadcast between them, and nothing is left in
\* the channel.
C20_Witness ==
    /\ control = << >>
    /\ \E p, q, r, b \in 1..Len(stream) :
          /\ p < r /\ r < q /\ p < b /\ b < q
          /\ IsLogOf(stream[p], "test") /\ IsLogOf(stream[q], "test")
          /\ stream[p].sender = stream[q].sender
          /\ stream[p].n = 1 /\ stream[q].n = 2
          /\ stream[r].type = "ManagerRequest" /\ stream[r].sender.kind = "interface"
          /\ stream[b].type = "RescanRequest"

\* The places of event e among the events that subscription i has received.
Received(i, e) ==
    { a \in 1..Len(subscriptions[i].got) : subscriptions[i].got[a] = e }

Greeted ==
    /\ last.op = "process_message"
    /\ last.ev.type = "ManagerRequest"
    /\ last.ev.verb = "InitialGreeting"
    /\ last.ev.sender \in DOMAIN interfaces

\* The places in `sent` of the messages with this verb.
SentVerb(verb) == { k \in 1..Len(sent) : sent[k].msg.verb = verb }

\* The greeting as it is output: Hello first, the Jig message second, with the
\* placeholder id when no jig is current, then the one Scenarios list, then, if
\* and only if a scenario is current, the one Scenario message that names it;
\* every message goes to the sender.
GreetingInOrder ==
    /\ SentVerb("Hello") = {1}
    /\ sent[1].msg = StatusMessage("Hello", "Jig/20 1.0", "")
    /\ SentVerb("Jig") = {2}
    /\ sent[2].msg.a = IF current_jig = None THEN UnitName(0, "jig") ELSE current_jig[1].id
    /\ Cardinality(SentVerb("Scenarios")) = 1
    /\ \A k \in SentVerb("Scenarios") : k > 2 /\ sent[k].msg.a = DOMAIN scenarios
    /\ Cardinality(SentVerb("Scenario")) = IF current_scenario = None THEN 0 ELSE 1
    /\ \A k \in SentVerb("Scenario") :
          /\ \A j \in SentVerb("Scenarios") : j < k
          /\ sent[k].msg.a = Some(current_scenario[1].id)
    /\ \A k \in 1..Len(sent) : sent[k].to = last.ev.sender

C23_ScenarioRequest ==
    [][ ( /\ last'.op = "process_message"
          /\ last'.ev.type = "ManagerRequest"
          /\ last'.ev.verb = "Scenario" )
        => IF last'.ev.arg[1] \in DOMAIN scenarios
           THEN last'.failed = {}
                   => (panicked' = "" /\ Holds(current_scenario', last'.ev.arg[1]))
           ELSE /\ panicked' = ""
                /\ current_scenario' = current_scenario
                /\ current_jig' = current_jig
                /\ RegistriesNext = RegistriesNow
                /\ Len(emitted') = 1
                /\ emitted'[1].type = "Log"
                /\ emitted'[1].status = "Error"
                /\ emitted'[1].name = last'.ev.sender
      ]_vars

\* The first place in events of the status of unit u, 0 if there is none.
FirstStatus(events, u, status) ==
    IF \E k \in 1..Len(events) : events[k] = StatusEvent(u, status, events[k].msg)
    THEN CHOOSE k \in 1..Len(events) :
            /\ events[k] = StatusEvent(u, status, events[k].msg)
            /\ \A j \in 1..(k - 1) : events[j] # StatusEvent(u, status, events[j].msg)
    ELSE 0

\* C24: select(N) of a loaded scenario N while another scenario O is current
\* deselects O, so that the Deselected status names O and not N, before N
\* becomes current and Active(N) is broadcast.
C24_SelectDeselectsOld ==
    [][ ( /\ last'.op = "select"
          /\ last'.id \in DOMAIN scenarios
          /\ current_scenario # None
          /\ current_scenario[1].id # last'.id
          /\ last'.failed = {} )
        => ( /\ panicked' = ""
             /\ Holds(current_scenario', last'.id)
             /\ CountStatus(emitted', current_scenario[1].id, "Deselected") = 1
             /\ CountStatus(emitted', last'.id, "Deselected") = 0
             /\ FirstStatus(emitted', current_scenario[1].id, "Deselected")
                   < FirstStatus(emitted', last'.id, "Active") )
      ]_vars

\* The messages of `sent` that went to interface i, in their order.
RECURSIVE SentTo(_, _)
SentTo(i, msgs) ==
    IF msgs = << >> THEN << >>
    ELSE IF Head(msgs).to = i THEN << Head(msgs).msg >> \o SentTo(i, Tail(msgs))
         ELSE SentTo(i, Tail(msgs))

\* What an interface is to receive about scenario sc when it becomes active.
ScenarioAnnouncement(sc) ==
    << StatusMessage("Scenario", Some(sc.id), ""),
       StatusMessage("Describe", sc.id, "name"),
       StatusMessage("Describe", sc.id, "description") >>
    \o DescribeAll(sc.tests)
    \o << StatusMessage("Tests", sc.id, sc.tests) >>

\* C25: when the manager has processed Status::Active(S) of a loaded scenario
\* S, every interface has received the Scenario message, the Name and the
\* Description Describe of S, a Name and Description Describe per test of S in
\* sequence order, and the Tests message of S, in this order.
C25_ActiveScenarioIsDescribed ==
    ( /\ last.op = "process_message"
      /\ last.ev.type = "Status"
      /\ last.ev.status = "Active"
      /\ last.ev.name \in DOMAIN scenarios
      /\ last.failed = {} )
    => \A i \in DOMAIN interfaces :
          SentTo(i, sent) = ScenarioAnnouncement(scenarios[last.ev.name])

\* The step is a call that deselects the jig that is current.
DeselectsCurrentJig ==
    /\ last'.op \in {"deselect", "deactivate", "unload"}
    /\ last'.id.kind = "jig"
    /\ Holds(current_jig, last'.id)

\* What the deselect of the current jig leaves in the two slots.
JigDeselected ==
    /\ panicked' = ""
    /\ current_jig' = None
    /\ \A s \in ScenarioNames :
          current_jig[1].default_scenario = Some(s) => ~Holds(current_scenario', s)
    /\ (current_scenario # None
          /\ current_jig[1].default_scenario # Some(current_scenario[1].id))
       => current_scenario' = current_scenario

\* C26: deselecting the current jig J deselects J's default scenario and then
\* clears current_jig: afterwards current_jig is empty and current_scenario is
\* not J's default scenario, and a current scenario other than J's default
\* scenario is still current.
C26_DeselectJig == [][ DeselectsCurrentJig => JigDeselected ]_vars

\* The manager r is what a deactivate of scenario s leaves when the deactivate
\* method of s returns Err: the method was invoked, so the call records its
\* failure and does not broadcast DeactivateSuccess(s).
DeactivateMethodInvoked(r, s) ==
    /\ r.panic = ""
    /\ "scenario.deactivate" \in r.failed
    /\ CountStatus(r.bc, s, "DeactivateSuccess") = 0

\* C27: deactivate(S, reason) on the current scenario S invokes the deactivate
\* method of S itself before it broadcasts DeactivateSuccess(S): when that
\* method returns Err, the call cannot end in DeactivateSuccess(S).
C27_DeactivateInvokesScenarioMethod ==
    \A s \in ScenarioNames :
       Holds(current_scenario, s)
          => DeactivateMethodInvoked(
                 deactivate(Self({"scenario.deactivate"}), s, "requested"), s)

\* Unit u is the current jig or the current scenario.
IsCurrent(u) ==
    IF u.kind = "jig" THEN Holds(current_jig, u) ELSE Holds(current_scenario, u)

\* C28: deselect, deactivate or unload of a jig or scenario that is not the
\* current one, loaded or not, broadcasts no Deselected status for it and
\* changes neither slot.
C28_DeselectedOnlyIfCurrent ==
    [][ ( /\ last'.op \in {"deselect", "deactivate", "unload"}
          /\ last'.id.kind \in {"jig", "scenario"}
          /\ ~IsCurrent(last'.id) )
        => ( /\ CountStatus(emitted', last'.id, "Deselected") = 0
             /\ current_jig' = current_jig
             /\ current_scenario' = current_scenario )
      ]_vars

\* C29: a successful activate(u) of a loaded jig or scenario u broadcasts
\* Status::Active(u) exactly once.
C29_ActiveBroadcastOnce ==
    ( /\ last.op = "activate"
      /\ last.id.kind \in {"jig", "scenario"}
      /\ last.ret = "Ok"
      /\ panicked = "" )
    => CountStatus(emitted, last.id, "Active") = 1

\* The manager r is what a failed activate(s) leaves: the slot is as it was
\* before the call and the one event of the call is ActiveFailed(s).
ActivateFailedCleanly(r, s) ==
    /\ r.panic = ""
    /\ r.current_scenario = current_scenario
    /\ Len(r.bc) = 1
    /\ r.bc[1].type = "Status"
    /\ r.bc[1].name = s
    /\ r.bc[1].status = "ActiveFailed"

\* C30: while a scenario T is current, an activate(S) of another scenario that
\* fails, because S is not loaded or because the activate method of S returns
\* Err, leaves T current and broadcasts only ActiveFailed(S).
C30_FailedActivateKeepsCurrent ==
    \A s \in ScenarioNames :
       (current_scenario # None /\ current_scenario[1].id # s)
          => ActivateFailedCleanly(activate(Self({"scenario.activate"}), s), s)

====
